---- MODULE Spec2Model ----
(***************************************************************************)
(* A model of the Transformer orchestrator of src/src/tool/transformer.py: *)
(* the greedy decoding loop of Transformer.infer, the producer/consumer    *)
(* loop of Transformer.predict_generator, the compile / load_checkpoint    *)
(* lifecycle, and the attention masks.  Each part has its own              *)
(* specification (SpecInfer, SpecPredict, SpecOrch, SpecMask); the         *)
(* variables of the other parts are held at an idle value.                 *)
(***************************************************************************)
EXTENDS Integers, Sequences, FiniteSets, TLC

\* ------------------------------------------------------------------ bounds
\* Size of the tokenizer's vocabulary: ids are 0 .. VocabSize - 1, 0 is pad.
VocabSize == 3
\* Longest input sentence handed to infer.
MaxSentLen == 3
\* Largest tokenizer.maxlen.
MaxMaxlen == 4
\* Most batches the producer handed to predict_generator holds.
MaxBatches == 2
\* Largest `steps` argument of predict_generator.
MaxSteps == 3
\* Largest `workers` argument of predict_generator.
MaxWorkers == 2
\* Largest `max_queue_size` argument of predict_generator.
MaxQueue == 2
\* Largest num_layers, d_model and num_heads a Transformer is constructed with.
MaxLayers == 2
MaxDModel == 4
MaxHeads == 3
\* Number of method calls made on one Transformer object.
MaxOps == 3
\* Longest decoder input row the masks are computed for.
MaxSeqLen == 3

None == "None"

\* ------------------------------------------------------------------ state
VARIABLES
    \* Transformer.infer
    pc,           \* position in infer: "call", "loop", "post", "done", "raised"
    tokenizer,    \* the tokenizer collaborator: vocab_size, maxlen, SOS, EOS
    sentence,     \* infer's argument
    dec_input,    \* the decoder input row (leading SOS, then the kept ids)
    it,           \* iterations of `for _ in range(maxlen)` completed
    decCalls,     \* number of self.decoder.predict calls made
    preds,        \* every predicted_id, in order (history)
    decodeArg,    \* the id list handed to tokenizer.decode (<<>> before)
    seq_lens,     \* the lengths of the rows handed to the encoder (the first) and
                  \* to the decoder, in order (history)
    \* Transformer.predict_generator
    pgpc,         \* position: "idle", "call", "create", "start", "loop", "finally",
                  \* "returned", "raised"
    pgArgs,       \* the arguments: steps, workers, max_queue_size, is_sequence
    generator,    \* the producer: the batches it yields, in order
    enqueuer,     \* None, "created", "running" or "stopped"
    queue,        \* the enqueuer's bounded queue of futures, oldest first
    drawn,        \* number of tasks the enqueuer has taken from the producer
    draining,     \* the output generator saw StopIteration and drains the queue
    yielded,      \* the batches in the order the producer yielded them (history)
    taken,        \* the batches next(output_generator) returned, in order (history)
    steps_done,
    predicts,     \* the predictions accumulated so far
    exc,          \* the exception in flight, or None
    \* Transformer: construction, compile, load_checkpoint
    config,       \* the constructor's num_layers, d_model, num_heads
    model,        \* self.model (NoObject is Python's None)
    encoder,      \* self.encoder
    decoder,      \* self.decoder
    compileCalls, \* number of calls of self.compile so far
    history,      \* the method calls made, with their outcome (history)
    \* Transformer.create_padding_mask, Transformer.create_look_ahead_mask
    x,                \* one row of the input batch
    padding_mask,     \* create_padding_mask(x), as a 1 x n matrix (<<>> before)
    look_ahead_mask,  \* create_look_ahead_mask(x), as an n x n matrix (<<>> before)
    \* LanguageModel.autocorrect (statistical.py)
    lmpc,         \* position: "idle", "call", "returned"
    mode,         \* the constructor's mode: "similarity", "norvig" or "symspell"
    sentences,    \* the argument: one sentence (a string) or a list of sentences
    known,        \* the tokens the corrector built from the corpus has a suggestion for
    corrected,    \* the list autocorrect returns (<<>> before)
    \* Transform.build (bea2019.py)
    bpc,          \* position: "idle", "call", "built"
    lines,        \* the normalized lines, in order
    partitions    \* self.partitions: train, valid, test

inferVars ==
    <<pc, tokenizer, sentence, dec_input, it, decCalls, preds, decodeArg, seq_lens>>

pgVars == <<pgpc, pgArgs, generator, enqueuer, queue, drawn, draining, yielded, taken,
            steps_done, predicts, exc>>

orchVars == <<config, model, encoder, decoder, compileCalls, history>>

maskVars == <<x, padding_mask, look_ahead_mask>>

lmVars == <<lmpc, mode, sentences, known, corrected>>

buildVars == <<bpc, lines, partitions>>

vars == <<inferVars, pgVars, orchVars, maskVars, lmVars, buildVars>>

IdleLM ==
    /\ lmpc = "idle" /\ mode = None /\ sentences = <<>> /\ known = {}
    /\ corrected = <<>>

\* self.partitions = dict()
EmptyPartitions == [train |-> <<>>, valid |-> <<>>, test |-> <<>>]

IdleBuild == bpc = "idle" /\ lines = <<>> /\ partitions = EmptyPartitions

IdleMask == x = None /\ padding_mask = <<>> /\ look_ahead_mask = <<>>

\* self.model = None: no object.
NoObject == [build |-> 0, weights |-> "none", depths |-> <<>>]

IdleOrch ==
    /\ config = None /\ model = NoObject /\ encoder = NoObject /\ decoder = NoObject
    /\ compileCalls = 0 /\ history = <<>>

\* The part that is not running holds these values.
IdleInfer ==
    /\ pc = "idle" /\ tokenizer = None /\ sentence = <<>> /\ dec_input = <<>>
    /\ it = 0 /\ decCalls = 0 /\ preds = <<>> /\ decodeArg = <<>> /\ seq_lens = <<>>

IdlePredict ==
    /\ pgpc = "idle" /\ pgArgs = None /\ generator = <<>> /\ enqueuer = None
    /\ queue = <<>> /\ drawn = 0 /\ draining = FALSE /\ yielded = <<>> /\ taken = <<>>
    /\ steps_done = 0 /\ predicts = <<>> /\ exc = None

IsPrefix(a, b) == Len(a) <= Len(b) /\ \A i \in 1 .. Len(a) : a[i] = b[i]

Elems(row) == {row[i] : i \in 1 .. Len(row)}

\* ------------------------------------------------------------- Transformer.infer
Ids == 0 .. (VocabSize - 1)

\* All sequences over S of length at most n.
SeqUpTo(S, n) == UNION {[1 .. k -> S] : k \in 0 .. n}

\* The tokenizers considered. SOS and EOS are distinct non-pad ids of the
\* vocabulary: the decoder embeds dec_input, which starts with SOS, with an
\* Embedding of vocab_size entries (line 222).
Tokenizers ==
    {t \in [vocab_size : {VocabSize}, maxlen : 0 .. MaxMaxlen, SOS : Ids, EOS : Ids] :
        t.SOS # 0 /\ t.EOS # 0 /\ t.SOS # t.EOS}

\* Variant of RangeHasNext: the loop written as `while True`.
RangeHasNextNoBound(i, maxlen) == TRUE
\* `for _ in range(self.tokenizer.maxlen)`: is there another iteration?
RangeHasNext(i, maxlen) == i < maxlen

\* Variant of ShouldBreak: the length test with >= for >.
ShouldBreakAtLength(decLen, sentLen, predicted_id, EOS) ==
    decLen >= sentLen \/ predicted_id = EOS
\* Variant of ShouldBreak: the length test left out, the output capped by
\* maxlen alone.
ShouldBreakEOSOnly(decLen, sentLen, predicted_id, EOS) == predicted_id = EOS
\* Variant of ShouldBreak: the EOS test left out.
ShouldBreakNoEOS(decLen, sentLen, predicted_id, EOS) == decLen > sentLen
\* The break test of the loop body (line 368).
ShouldBreak(decLen, sentLen, predicted_id, EOS) ==
    decLen > sentLen \/ predicted_id = EOS

\* Variant of DropLeading: dec_input instead of dec_input[1:].
DropLeadingKeepAll(row) == row
\* dec_input[1:] after the squeeze (line 376).
DropLeading(row) == IF row = <<>> THEN <<>> ELSE Tail(row)

\* [i for i in dec_input[1:] if i < self.tokenizer.vocab_size]
RECURSIVE FilterBelow(_, _)
FilterBelow(row, vocab_size) ==
    IF row = <<>> THEN <<>>
    ELSE IF Head(row) < vocab_size
         THEN <<Head(row)>> \o FilterBelow(Tail(row), vocab_size)
         ELSE FilterBelow(Tail(row), vocab_size)

InitInfer ==
    /\ pc = "call"
    /\ tokenizer \in Tokenizers
    /\ sentence \in SeqUpTo(Ids, MaxSentLen)
    /\ dec_input = <<>>
    /\ it = 0
    /\ decCalls = 0
    /\ preds = <<>>
    /\ decodeArg = <<>>
    /\ seq_lens = <<>>
    /\ IdlePredict
    /\ IdleOrch
    /\ IdleMask
    /\ IdleLM
    /\ IdleBuild

\* The number of positions of the table the encoder and the decoder are built
\* with: PositionalEncoding(vocab_size, d_model) (lines 175, 224), vocab_size
\* being self.tokenizer.vocab_size (lines 141, 150).
position(tok) == tok.vocab_size

\* PositionalEncoding.call: inputs + self.pos_encoding[:, :seq_len, :]. The
\* slice has min(seq_len, position) rows; the sum is defined when the two
\* lengths agree or the table has one row, which is broadcast, and raises
\* otherwise.
PositionalEncoding_call(seq_len, pos) ==
    IF seq_len <= pos \/ pos = 1 THEN "ok" ELSE "raise"

\* Lines 359-362: build en_input and dec_input = [[SOS]], run the encoder once.
InferStart ==
    /\ pc = "call"
    /\ dec_input' = <<tokenizer.SOS>>
    /\ seq_lens' = <<Len(sentence)>>
    /\ pc' = IF PositionalEncoding_call(Len(sentence), position(tokenizer)) = "ok"
             THEN "loop" ELSE "raised"
    /\ UNCHANGED <<tokenizer, sentence, it, decCalls, preds, decodeArg>>
    /\ UNCHANGED <<pgVars, orchVars, maskVars, lmVars, buildVars>>

\* Lines 364-373: one iteration of the loop: one decoder call, the argmax of the
\* last position (any id of the vocabulary), the break test, the concat.
DecoderStep ==
    /\ pc = "loop"
    /\ RangeHasNext(it, tokenizer.maxlen)
    /\ decCalls' = decCalls + 1
    /\ seq_lens' = Append(seq_lens, Len(dec_input))
    /\ IF PositionalEncoding_call(Len(dec_input), position(tokenizer)) = "ok"
       THEN \E predicted_id \in 0 .. (tokenizer.vocab_size - 1) :
              /\ preds' = Append(preds, predicted_id)
              /\ IF ShouldBreak(Len(dec_input), Len(sentence), predicted_id,
                                tokenizer.EOS)
                 THEN /\ pc' = "post"
                      /\ UNCHANGED <<dec_input, it>>
                 ELSE /\ dec_input' = Append(dec_input, predicted_id)
                      /\ it' = it + 1
                      /\ pc' = "loop"
       ELSE /\ pc' = "raised"
            /\ UNCHANGED <<dec_input, it, preds>>
    /\ UNCHANGED <<tokenizer, sentence, decodeArg>>
    /\ UNCHANGED <<pgVars, orchVars, maskVars, lmVars, buildVars>>

\* Line 364: range(maxlen) is exhausted, the loop ends without a break.
LoopExhausted ==
    /\ pc = "loop"
    /\ ~RangeHasNext(it, tokenizer.maxlen)
    /\ pc' = "post"
    /\ UNCHANGED <<tokenizer, sentence, dec_input, it, decCalls, preds, decodeArg,
                   seq_lens>>
    /\ UNCHANGED <<pgVars, orchVars, maskVars, lmVars, buildVars>>

\* Lines 375-379: squeeze, drop the leading SOS, filter, decode, return.
PostProcess ==
    /\ pc = "post"
    /\ decodeArg' = FilterBelow(DropLeading(dec_input), tokenizer.vocab_size)
    /\ pc' = "done"
    /\ UNCHANGED <<tokenizer, sentence, dec_input, it, decCalls, preds, seq_lens>>
    /\ UNCHANGED <<pgVars, orchVars, maskVars, lmVars, buildVars>>

NextInfer == InferStart \/ DecoderStep \/ LoopExhausted \/ PostProcess

SpecInfer == InitInfer /\ [][NextInfer]_vars

\* infer runs on one thread: a step that can be taken is taken.
SpecInferFair == SpecInfer /\ WF_vars(NextInfer)

\* -------------------------------------------------- Transformer.predict_generator
\* Batch k of the producers considered: k sentences, the j-th of length j.
Batch(k) == [j \in 1 .. k |-> [i \in 1 .. j |-> k]]

Generators == SeqUpTo({Batch(k) : k \in 1 .. MaxBatches}, MaxBatches)

PredictArgs ==
    [steps : 0 .. MaxSteps, workers : 1 .. MaxWorkers,
     max_queue_size : 1 .. MaxQueue, is_sequence : BOOLEAN]

\* What self.infer(sentence) returns: some text determined by the sentence.
InferOf(s) == <<"infer", s>>

\* [self.infer(sentence) for sentence in x]
InferAll(batch) == [j \in 1 .. Len(batch) |-> InferOf(batch[j])]

\* Variant of Extend: the new predictions put in front.
ExtendInFront(list, new) == new \o list
\* predicts.extend(...) (line 341)
Extend(list, new) == list \o new

\* Variant of AfterFinally: the enqueuer stopped after the loop only, not in a
\* finally block.
StopOnlyOnSuccess(enq, e) == IF enq # None /\ e = None THEN "stopped" ELSE enq
\* The finally block: `if enqueuer is not None: enqueuer.stop()` (lines 347-349).
AfterFinally(enq, e) == IF enq # None THEN "stopped" ELSE enq

\* The futures of the queue that are not resolved yet and older than the k-th.
PendingBefore(q, k) == {j \in 1 .. (k - 1) : q[j].st = "pending"}

InitPredict ==
    /\ pgpc = "call"
    /\ pgArgs \in PredictArgs
    /\ generator \in Generators
    /\ enqueuer = None
    /\ queue = <<>>
    /\ drawn = 0
    /\ draining = FALSE
    /\ yielded = <<>>
    /\ taken = <<>>
    /\ steps_done = 0
    /\ predicts = <<>>
    /\ exc = None
    /\ IdleInfer
    /\ IdleOrch
    /\ IdleMask
    /\ IdleLM
    /\ IdleBuild

\* Lines 319-324: the predict functions of self.encoder and self.decoder are
\* made, which raises before the try block is entered when they are None.
PGEnter ==
    /\ pgpc = "call"
    /\ \E ok \in BOOLEAN :
          IF ok THEN /\ pgpc' = "create"
                     /\ UNCHANGED exc
                ELSE /\ exc' = "AttributeError"
                     /\ pgpc' = "raised"
    /\ UNCHANGED <<pgArgs, generator, enqueuer, queue, drawn, draining, yielded, taken,
                   steps_done, predicts>>
    /\ UNCHANGED <<inferVars, orchVars, maskVars, lmVars, buildVars>>

\* Lines 327-330: the enqueuer is constructed (OrderedEnqueuer for a Sequence,
\* GeneratorEnqueuer otherwise), or its constructor raises.
PGCreate ==
    /\ pgpc = "create"
    /\ \E ok \in BOOLEAN :
          IF ok THEN /\ enqueuer' = "created"
                     /\ pgpc' = "start"
                     /\ UNCHANGED exc
                ELSE /\ exc' = "Exception"
                     /\ pgpc' = "finally"
                     /\ UNCHANGED enqueuer
    /\ UNCHANGED <<pgArgs, generator, queue, drawn, draining, yielded, taken,
                   steps_done, predicts>>
    /\ UNCHANGED <<inferVars, orchVars, maskVars, lmVars, buildVars>>

\* Lines 332-334: enqueuer.start(...) starts the background producer, or raises.
PGStart ==
    /\ pgpc = "start"
    /\ \E ok \in BOOLEAN :
          IF ok THEN /\ enqueuer' = "running"
                     /\ pgpc' = "loop"
                     /\ UNCHANGED exc
                ELSE /\ exc' = "Exception"
                     /\ pgpc' = "finally"
                     /\ UNCHANGED enqueuer
    /\ predicts' = <<>>
    /\ UNCHANGED <<pgArgs, generator, queue, drawn, draining, yielded, taken, steps_done>>
    /\ UNCHANGED <<inferVars, orchVars, maskVars, lmVars, buildVars>>

\* The enqueuer's run thread puts one more future into the bounded queue. For a
\* Sequence the task is get_index(i), epoch after epoch, a new epoch starting
\* once the queue is empty; for a generator the task is next(generator).
EnqSubmit ==
    /\ enqueuer = "running"
    /\ ~draining
    /\ Len(queue) < pgArgs.max_queue_size
    /\ IF pgArgs.is_sequence
       THEN /\ Len(generator) > 0
            /\ (drawn > 0 /\ drawn % Len(generator) = 0) => queue = <<>>
            /\ queue' = Append(queue, [st |-> "pending", val |-> <<>>,
                                       idx |-> (drawn % Len(generator)) + 1])
            /\ yielded' = Append(yielded, generator[(drawn % Len(generator)) + 1])
            /\ drawn' = drawn + 1
       ELSE /\ queue' = Append(queue, [st |-> "pending", val |-> <<>>, idx |-> 0])
            /\ UNCHANGED <<yielded, drawn>>
    /\ UNCHANGED <<pgpc, pgArgs, generator, enqueuer, draining, taken, steps_done,
                   predicts, exc>>
    /\ UNCHANGED <<inferVars, orchVars, maskVars, lmVars, buildVars>>

\* One of the pool's `workers` threads runs a task: the tasks are started oldest
\* first, so a task runs while fewer than `workers` older ones are unfinished.
\* get_index(i) gives batch i; next(generator) gives the producer's next batch,
\* or StopIteration once it is exhausted.
EnqExecute ==
    /\ enqueuer = "running"
    /\ \E k \in 1 .. Len(queue) :
          /\ queue[k].st = "pending"
          /\ Cardinality(PendingBefore(queue, k)) < pgArgs.workers
          /\ IF pgArgs.is_sequence
             THEN /\ queue' = [queue EXCEPT ![k] = [st |-> "ok", idx |-> @.idx,
                                                    val |-> generator[@.idx]]]
                  /\ UNCHANGED <<yielded, drawn>>
             ELSE IF drawn < Len(generator)
                  THEN /\ queue' = [queue EXCEPT ![k] = [st |-> "ok", idx |-> 0,
                                                         val |-> generator[drawn + 1]]]
                       /\ yielded' = Append(yielded, generator[drawn + 1])
                       /\ drawn' = drawn + 1
                  ELSE /\ queue' = [queue EXCEPT ![k] = [st |-> "stop", idx |-> 0,
                                                         val |-> <<>>]]
                       /\ UNCHANGED <<yielded, drawn>>
    /\ UNCHANGED <<pgpc, pgArgs, generator, enqueuer, draining, taken, steps_done,
                   predicts, exc>>
    /\ UNCHANGED <<inferVars, orchVars, maskVars, lmVars, buildVars>>

\* Lines 339-345: one iteration: next(output_generator) gives the oldest future's
\* batch, infer runs on every sentence of it (and may raise on one), the
\* predictions are appended and steps_done is incremented.
PGStep ==
    /\ pgpc = "loop"
    /\ steps_done < pgArgs.steps
    /\ queue # <<>>
    /\ Head(queue).st = "ok"
    /\ queue' = Tail(queue)
    /\ taken' = Append(taken, Head(queue).val)
    /\ \E raises \in BOOLEAN :
          IF raises
          THEN /\ exc' = "InferError"
               /\ pgpc' = "finally"
               /\ UNCHANGED <<predicts, steps_done>>
          ELSE /\ predicts' = Extend(predicts, InferAll(Head(queue).val))
               /\ steps_done' = steps_done + 1
               /\ UNCHANGED <<pgpc, exc>>
    /\ UNCHANGED <<pgArgs, generator, enqueuer, drawn, draining, yielded>>
    /\ UNCHANGED <<inferVars, orchVars, maskVars, lmVars, buildVars>>

\* Line 340, inside next(output_generator): the oldest future raised
\* StopIteration (the producer is exhausted); the output generator drops it and
\* goes on to drain what is left in the queue.
PGStopSeen ==
    /\ pgpc = "loop"
    /\ steps_done < pgArgs.steps
    /\ queue # <<>>
    /\ Head(queue).st = "stop"
    /\ queue' = Tail(queue)
    /\ draining' = TRUE
    /\ UNCHANGED <<pgpc, pgArgs, generator, enqueuer, drawn, yielded, taken, steps_done,
                   predicts, exc>>
    /\ UNCHANGED <<inferVars, orchVars, maskVars, lmVars, buildVars>>

\* Line 340: the drained output generator ends, next() raises StopIteration.
PGExhausted ==
    /\ pgpc = "loop"
    /\ steps_done < pgArgs.steps
    /\ draining
    /\ queue = <<>>
    /\ exc' = "StopIteration"
    /\ pgpc' = "finally"
    /\ UNCHANGED <<pgArgs, generator, enqueuer, queue, drawn, draining, yielded, taken,
                   steps_done, predicts>>
    /\ UNCHANGED <<inferVars, orchVars, maskVars, lmVars, buildVars>>

\* Line 339: steps_done reached steps, the loop ends.
PGLoopEnd ==
    /\ pgpc = "loop"
    /\ ~(steps_done < pgArgs.steps)
    /\ pgpc' = "finally"
    /\ UNCHANGED <<pgArgs, generator, enqueuer, queue, drawn, draining, yielded, taken,
                   steps_done, predicts, exc>>
    /\ UNCHANGED <<inferVars, orchVars, maskVars, lmVars, buildVars>>

\* Lines 347-351: the finally block, then the return or the propagation.
PGFinally ==
    /\ pgpc = "finally"
    /\ enqueuer' = AfterFinally(enqueuer, exc)
    /\ pgpc' = IF exc = None THEN "returned" ELSE "raised"
    /\ UNCHANGED <<pgArgs, generator, queue, drawn, draining, yielded, taken,
                   steps_done, predicts, exc>>
    /\ UNCHANGED <<inferVars, orchVars, maskVars, lmVars, buildVars>>

NextPredict ==
    \/ PGEnter \/ PGCreate \/ PGStart \/ EnqSubmit \/ EnqExecute
    \/ PGStep \/ PGStopSeen \/ PGExhausted \/ PGLoopEnd \/ PGFinally

SpecPredict == InitPredict /\ [][NextPredict]_vars

\* ------------------------------------ Transformer: compile and load_checkpoint
Configs == [num_layers : 0 .. MaxLayers, d_model : 1 .. MaxDModel, num_heads : 1 .. MaxHeads]

\* Variant of MultiHeadAttention: no assertion, the depth silently truncated.
MultiHeadAttentionNoAssert(d_model, num_heads) ==
    [raised |-> FALSE, depthSet |-> TRUE, depth |-> d_model \div num_heads]
\* MultiHeadAttention.__init__: the assertion, then depth = d_model // num_heads.
MultiHeadAttention(d_model, num_heads) ==
    IF d_model % num_heads = 0
    THEN [raised |-> FALSE, depthSet |-> TRUE, depth |-> d_model \div num_heads]
    ELSE [raised |-> TRUE, depthSet |-> FALSE, depth |-> 0]

\* _encoder_layer: one attention layer.
encoder_layer(d_model, num_heads) ==
    LET attention == MultiHeadAttention(d_model, num_heads)
    IN  [raised |-> attention.raised,
         depths |-> IF attention.raised THEN <<>> ELSE <<attention.depth>>]

\* _decoder_layer: two attention layers, attention_1 then attention_2.
decoder_layer(d_model, num_heads) ==
    LET attention1 == MultiHeadAttention(d_model, num_heads)
        attention2 == MultiHeadAttention(d_model, num_heads)
    IN  IF attention1.raised \/ attention2.raised
        THEN [raised |-> TRUE, depths |-> <<>>]
        ELSE [raised |-> FALSE, depths |-> <<attention1.depth, attention2.depth>>]

\* _encoder_model: `for i in range(num_layers)` builds the layers one by one; an
\* exception of a layer's construction ends the build.
RECURSIVE encoder_model(_, _, _)
encoder_model(num_layers, d_model, num_heads) ==
    IF num_layers <= 0 THEN [raised |-> FALSE, depths |-> <<>>]
    ELSE LET before == encoder_model(num_layers - 1, d_model, num_heads)
             layer == encoder_layer(d_model, num_heads)
         IN  IF before.raised \/ layer.raised
             THEN [raised |-> TRUE, depths |-> <<>>]
             ELSE [raised |-> FALSE, depths |-> before.depths \o layer.depths]

\* _decoder_model, likewise.
RECURSIVE decoder_model(_, _, _)
decoder_model(num_layers, d_model, num_heads) ==
    IF num_layers <= 0 THEN [raised |-> FALSE, depths |-> <<>>]
    ELSE LET before == decoder_model(num_layers - 1, d_model, num_heads)
             layer == decoder_layer(d_model, num_heads)
         IN  IF before.raised \/ layer.raised
             THEN [raised |-> TRUE, depths |-> <<>>]
             ELSE [raised |-> FALSE, depths |-> before.depths \o layer.depths]

\* The orchestrator's fields as one record.
Fields == [model |-> model, encoder |-> encoder, decoder |-> decoder,
           compileCalls |-> compileCalls]

\* compile: self.encoder, then self.decoder, then self.model are assigned; an
\* exception leaves the fields not yet assigned as they were.
compile(st, cfg) ==
    LET n == st.compileCalls + 1
        enc == encoder_model(cfg.num_layers, cfg.d_model, cfg.num_heads)
        dec == decoder_model(cfg.num_layers, cfg.d_model, cfg.num_heads)
        called == [st EXCEPT !.compileCalls = n]
        withEnc == [called EXCEPT
                       !.encoder = [build |-> n, weights |-> "fresh", depths |-> enc.depths]]
        withDec == [withEnc EXCEPT
                       !.decoder = [build |-> n, weights |-> "fresh", depths |-> dec.depths]]
    IN  IF enc.raised THEN [st |-> called, result |-> "AssertionError"]
        ELSE IF dec.raised THEN [st |-> withEnc, result |-> "AssertionError"]
        ELSE [st |-> [withDec EXCEPT
                         !.model = [build |-> n, weights |-> "fresh",
                                    depths |-> enc.depths \o dec.depths]],
              result |-> "ok"]

\* The three load_weights(target, by_name=True) calls, the file being a
\* readable weights file.
load_weights(st) ==
    [st EXCEPT !.model.weights = "loaded", !.encoder.weights = "loaded",
               !.decoder.weights = "loaded"]

\* Variant of load_checkpoint: the compile hoisted out of the isfile test.
load_checkpoint_CompileOutside(st, cfg, exists) ==
    LET built == IF st.model = NoObject THEN compile(st, cfg)
                 ELSE [st |-> st, result |-> "ok"]
    IN  IF built.result # "ok" THEN built
        ELSE IF exists THEN [st |-> load_weights(built.st), result |-> "ok"]
        ELSE built
\* Variant of load_checkpoint: a missing file is an error.
load_checkpoint_RaiseWhenMissing(st, cfg, exists) ==
    LET built == IF st.model = NoObject THEN compile(st, cfg)
                 ELSE [st |-> st, result |-> "ok"]
    IN  IF built.result # "ok" THEN built
        ELSE IF exists THEN [st |-> load_weights(built.st), result |-> "ok"]
        ELSE [st |-> built.st, result |-> "OSError"]
\* Variant of load_checkpoint: compile called without the `is None` test.
load_checkpoint_AlwaysCompile(st, cfg, exists) ==
    IF exists
    THEN LET built == compile(st, cfg)
         IN  IF built.result # "ok" THEN built
             ELSE [st |-> load_weights(built.st), result |-> "ok"]
    ELSE [st |-> st, result |-> "ok"]
\* load_checkpoint(target), `exists` being os.path.isfile(target).
load_checkpoint(st, cfg, exists) ==
    IF exists
    THEN LET built == IF st.model = NoObject THEN compile(st, cfg)
                      ELSE [st |-> st, result |-> "ok"]
         IN  IF built.result # "ok" THEN built
             ELSE [st |-> load_weights(built.st), result |-> "ok"]
    ELSE [st |-> st, result |-> "ok"]

\* infer needs self.encoder and self.decoder (lines 362, 365): on None the
\* attribute access raises.
infer_outcome(st) ==
    IF st.encoder = NoObject \/ st.decoder = NoObject THEN "AttributeError" ELSE "ok"

\* fit_generator needs self.model (line 297); training updates the weights, which
\* the three models share.
fit_generator(st) ==
    IF st.model = NoObject THEN [st |-> st, result |-> "AttributeError"]
    ELSE [st |-> [st EXCEPT !.model.weights = "trained", !.encoder.weights = "trained",
                            !.decoder.weights = "trained"],
          result |-> "ok"]

\* Lines 47-58: the constructor.
InitOrch ==
    /\ config \in Configs
    /\ model = NoObject
    /\ encoder = NoObject
    /\ decoder = NoObject
    /\ compileCalls = 0
    /\ history = <<>>
    /\ IdleInfer
    /\ IdlePredict
    /\ IdleMask
    /\ IdleLM
    /\ IdleBuild

\* A method call ends: the fields are assigned and the call is recorded.
Finish(op, exists, out) ==
    /\ model' = out.st.model
    /\ encoder' = out.st.encoder
    /\ decoder' = out.st.decoder
    /\ compileCalls' = out.st.compileCalls
    /\ history' = Append(history, [op |-> op, exists |-> exists, result |-> out.result])
    /\ UNCHANGED config
    /\ UNCHANGED <<inferVars, pgVars, maskVars, lmVars, buildVars>>

Compile ==
    /\ Len(history) < MaxOps
    /\ Finish("compile", FALSE, compile(Fields, config))

LoadCheckpoint ==
    /\ Len(history) < MaxOps
    /\ \E exists \in BOOLEAN :
          Finish("load_checkpoint", exists, load_checkpoint(Fields, config, exists))

Infer ==
    /\ Len(history) < MaxOps
    /\ Finish("infer", FALSE, [st |-> Fields, result |-> infer_outcome(Fields)])

FitGenerator ==
    /\ Len(history) < MaxOps
    /\ Finish("fit_generator", FALSE, fit_generator(Fields))

NextOrch == Compile \/ LoadCheckpoint \/ Infer \/ FitGenerator

SpecOrch == InitOrch /\ [][NextOrch]_vars

\* ------------------------------------------------------------------ masks
\* tf.ones((rows, cols))
ones(rows, cols) == [i \in 1 .. rows |-> [j \in 1 .. cols |-> 1]]

\* tf.linalg.band_part(m, num_lower, num_upper): entry (i, j) is kept when
\* (num_lower < 0 or i - j <= num_lower) and (num_upper < 0 or j - i <= num_upper),
\* and set to 0 otherwise.
band_part(m, num_lower, num_upper) ==
    [i \in 1 .. Len(m) |->
        [j \in 1 .. Len(m[i]) |->
            IF /\ (num_lower < 0 \/ i - j <= num_lower)
               /\ (num_upper < 0 \/ j - i <= num_upper)
            THEN m[i][j] ELSE 0]]

\* 1 - m, elementwise.
one_minus(m) == [i \in 1 .. Len(m) |-> [j \in 1 .. Len(m[i]) |-> 1 - m[i][j]]]

Max(a, b) == IF a >= b THEN a ELSE b

\* tf.maximum(a, b) of an n x n matrix a and a 1 x n matrix b: b's only row is
\* broadcast over the rows of a.
maximum(a, b) ==
    [i \in 1 .. Len(a) |-> [j \in 1 .. Len(a[i]) |-> Max(a[i][j], b[1][j])]]

\* create_padding_mask: cast(equal(x, 0)), the row kept as the last axis.
create_padding_mask(row) == <<[j \in 1 .. Len(row) |-> IF row[j] = 0 THEN 1 ELSE 0]>>

\* Variant of create_look_ahead_mask: the padding mask left out.
create_look_ahead_mask_NoPadding(row) ==
    LET seq_len == Len(row)
    IN  one_minus(band_part(ones(seq_len, seq_len), -1, 0))
\* create_look_ahead_mask.
create_look_ahead_mask(row) ==
    LET seq_len == Len(row)
        triangle == one_minus(band_part(ones(seq_len, seq_len), -1, 0))
    IN  maximum(triangle, create_padding_mask(row))

InitMask ==
    /\ x \in SeqUpTo(Ids, MaxSeqLen)
    /\ padding_mask = <<>>
    /\ look_ahead_mask = <<>>
    /\ IdleInfer
    /\ IdlePredict
    /\ IdleOrch
    /\ IdleLM
    /\ IdleBuild

\* The encoder's Lambda layer calls create_padding_mask on its input (line 171).
CreatePaddingMask ==
    /\ padding_mask' = create_padding_mask(x)
    /\ UNCHANGED <<x, look_ahead_mask>>
    /\ UNCHANGED <<inferVars, pgVars, orchVars, lmVars, buildVars>>

\* The decoder's Lambda layer calls create_look_ahead_mask on its input (line 220).
CreateLookAheadMask ==
    /\ look_ahead_mask' = create_look_ahead_mask(x)
    /\ UNCHANGED <<x, padding_mask>>
    /\ UNCHANGED <<inferVars, pgVars, orchVars, lmVars, buildVars>>

NextMask == CreatePaddingMask \/ CreateLookAheadMask

SpecMask == InitMask /\ [][NextMask]_vars

\* ------------------------------------------------- LanguageModel.autocorrect
\* Longest sentence and longest list of sentences handed to autocorrect.
MaxChars == 3
MaxSentences == 2

\* The characters sentences are written with: a letter, a punctuation mark and
\* the blank.
Chars == {"a", "!", " "}

Whitespace == {" "}

\* string.punctuation, one character per element ("grave" is the grave accent).
string_punctuation ==
    <<"!", "\"", "#", "$", "%", "&", "'", "(", ")", "*", "+", ",", "-", ".", "/", ":",
      ";", "<", "=", ">", "?", "@", "[", "\\", "]", "^", "_", "grave", "{", "|", "}",
      "~">>

\* `a in b` for two Python strings: a is a contiguous substring of b.
In(a, b) ==
    \E i \in 0 .. (Len(b) - Len(a)) : SubSeq(b, i + 1, i + Len(a)) = a

\* The length of the leading run of non-blank characters of s.
RECURSIVE WordLen(_)
WordLen(s) ==
    IF s = <<>> \/ Head(s) \in Whitespace THEN 0 ELSE 1 + WordLen(Tail(s))

\* str.split() without arguments: the maximal runs of non-blank characters.
RECURSIVE split(_)
split(s) ==
    IF s = <<>> THEN <<>>
    ELSE IF Head(s) \in Whitespace THEN split(Tail(s))
    ELSE <<SubSeq(s, 1, WordLen(s))>> \o split(SubSeq(s, WordLen(s) + 1, Len(s)))

\* sep.join(words)
RECURSIVE join(_, _)
join(sep, words) ==
    IF words = <<>> THEN <<>>
    ELSE IF Len(words) = 1 THEN words[1]
    ELSE words[1] \o sep \o join(sep, Tail(words))

\* `if not isinstance(sentences, list): sentences = [sentences]`
AsList(arg) == IF arg.is_list THEN arg.value ELSE <<arg.value>>

Sentences == SeqUpTo(Chars, MaxChars)

AutocorrectArgs ==
    [is_list : {FALSE}, value : Sentences]
    \cup [is_list : {TRUE}, value : SeqUpTo(Sentences, MaxSentences)]

\* The tokens of the argument.
TokensOf(arg) ==
    UNION {Elems(split(AsList(arg)[i])) : i \in 1 .. Len(AsList(arg))}

\* The word the corrector suggests for a token it has a suggestion for: a word
\* of the corpus, determined by the token.
Suggestion(tok) == <<"b">> \o tok

\* ngram.find(x): the most similar item, or None (here the empty string).
find(kn, tok) == IF tok \in kn THEN Suggestion(tok) ELSE <<>>

\* norvig.correction(x): the most probable candidate, or None.
correction(kn, tok) == IF tok \in kn THEN Suggestion(tok) ELSE <<>>

\* symspell.lookup(x, verbosity=0, ...): a list with the closest item, or [].
lookup(kn, tok) == IF tok \in kn THEN <<[term |-> Suggestion(tok)]>> ELSE <<>>

\* Lines 101-105: the tokens of one sentence, each replaced or kept, rejoined.
similarity_sentence(kn, s) ==
    LET words == split(s)
        sugg(tok) == IF ~In(tok, string_punctuation) THEN find(kn, tok) ELSE <<>>
        splitted == [j \in 1 .. Len(words) |->
                        IF sugg(words[j]) # <<>> THEN sugg(words[j]) ELSE words[j]]
    IN  join(<<" ">>, splitted)

\* Lines 135-139.
norvig_sentence(kn, s) ==
    LET words == split(s)
        sugg(tok) == IF ~In(tok, string_punctuation) THEN correction(kn, tok) ELSE <<>>
        splitted == [j \in 1 .. Len(words) |->
                        IF sugg(words[j]) # <<>> THEN sugg(words[j]) ELSE words[j]]
    IN  join(<<" ">>, splitted)

\* Lines 171-176.
symspell_sentence(kn, s) ==
    LET words == split(s)
        sugg(tok) == IF ~In(tok, string_punctuation) THEN lookup(kn, tok) ELSE <<>>
        splitted == [j \in 1 .. Len(words) |->
                        IF sugg(words[j]) # <<>> THEN sugg(words[j])[1].term
                        ELSE words[j]]
    IN  join(<<" ">>, splitted)

\* LanguageModel._similarity
similarity(kn, arg) ==
    [i \in 1 .. Len(AsList(arg)) |-> similarity_sentence(kn, AsList(arg)[i])]

\* LanguageModel._norvig
norvig(kn, arg) ==
    [i \in 1 .. Len(AsList(arg)) |-> norvig_sentence(kn, AsList(arg)[i])]

\* LanguageModel._symspell
symspell(kn, arg) ==
    [i \in 1 .. Len(AsList(arg)) |-> symspell_sentence(kn, AsList(arg)[i])]

\* A LanguageModel constructed with some mode, its corpus read, and autocorrect
\* about to be called.
InitLM ==
    /\ lmpc = "call"
    /\ mode \in {"similarity", "norvig", "symspell"}
    /\ sentences \in AutocorrectArgs
    /\ known \in SUBSET TokensOf(sentences)
    /\ corrected = <<>>
    /\ IdleInfer
    /\ IdlePredict
    /\ IdleOrch
    /\ IdleMask
    /\ IdleBuild

\* self.autocorrect = getattr(self, f"_{mode}") (line 23), called.
AutocorrectSimilarity ==
    /\ lmpc = "call"
    /\ mode = "similarity"
    /\ corrected' = similarity(known, sentences)
    /\ lmpc' = "returned"
    /\ UNCHANGED <<mode, sentences, known>>
    /\ UNCHANGED <<inferVars, pgVars, orchVars, maskVars, buildVars>>

AutocorrectNorvig ==
    /\ lmpc = "call"
    /\ mode = "norvig"
    /\ corrected' = norvig(known, sentences)
    /\ lmpc' = "returned"
    /\ UNCHANGED <<mode, sentences, known>>
    /\ UNCHANGED <<inferVars, pgVars, orchVars, maskVars, buildVars>>

AutocorrectSymspell ==
    /\ lmpc = "call"
    /\ mode = "symspell"
    /\ corrected' = symspell(known, sentences)
    /\ lmpc' = "returned"
    /\ UNCHANGED <<mode, sentences, known>>
    /\ UNCHANGED <<inferVars, pgVars, orchVars, maskVars, buildVars>>

NextLM == AutocorrectSimilarity \/ AutocorrectNorvig \/ AutocorrectSymspell

SpecLM == InitLM /\ [][NextLM]_vars

\* ----------------------------------------------------------- Transform.build
\* Most normalized lines the M2 files yield.
MaxLines == 6

\* The texts a normalized line can be.
LineTexts == {"a", "b"}

\* seq[lo:hi] of Python for 0 <= lo: the indices are clamped to the length.
Slice(seq, lo, hi) ==
    LET l == IF lo > Len(seq) THEN Len(seq) ELSE lo
        h == IF hi > Len(seq) THEN Len(seq) ELSE hi
    IN  IF h <= l THEN <<>> ELSE SubSeq(seq, l + 1, h)

\* int(total * 0.8): the product is a float and int() truncates it; for every
\* length a list can have this is the integer quotient below.
train_index(total) == (total * 8) \div 10

\* Variant of valid_index: the half rounded up.
valid_index_RoundUp(total, train_i) == train_i + (total - train_i + 1) \div 2
\* train_i + int((total - train_i) / 2)
valid_index(total, train_i) == train_i + (total - train_i) \div 2

\* Lines 26-32 of build: the three slices.
build(ls) ==
    LET total == Len(ls)
        train_i == train_index(total)
        valid_i == valid_index(total, train_i)
    IN  [train |-> Slice(ls, 0, train_i),
         valid |-> Slice(ls, train_i, valid_i),
         test |-> Slice(ls, valid_i, total)]

\* A Transform whose M2 files were read, deduplicated and normalized.
InitBuild ==
    /\ bpc = "call"
    /\ lines \in SeqUpTo(LineTexts, MaxLines)
    /\ partitions = EmptyPartitions
    /\ IdleInfer
    /\ IdlePredict
    /\ IdleOrch
    /\ IdleMask
    /\ IdleLM

Build ==
    /\ bpc = "call"
    /\ partitions' = build(lines)
    /\ bpc' = "built"
    /\ UNCHANGED lines
    /\ UNCHANGED <<inferVars, pgVars, orchVars, maskVars, lmVars>>

NextBuild == Build

SpecBuild == InitBuild /\ [][NextBuild]_vars

\* --------------------------------- claims about compile and load_checkpoint
\* The step just taken was load_checkpoint(target) with isfile(target) = ex.
LoadStep(ex) ==
    /\ Len(history') = Len(history) + 1
    /\ history'[Len(history')].op = "load_checkpoint"
    /\ history'[Len(history')].exists = ex

\* The last call made was load_checkpoint on a missing file.
LastIsLoadMissing ==
    /\ history # <<>>
    /\ history[Len(history)].op = "load_checkpoint"
    /\ ~history[Len(history)].exists

\* A call before the last one built the models.
BuiltBeforeLast ==
    \E i \in 1 .. (Len(history) - 1) :
        /\ history[i].result = "ok"
        /\ \/ history[i].op = "compile"
           \/ history[i].op = "load_checkpoint" /\ history[i].exists

\* A call before the last one trained or restored the weights.
WeightsSetBeforeLast ==
    \E i \in 1 .. (Len(history) - 1) :
        /\ history[i].result = "ok"
        /\ \/ history[i].op = "fit_generator"
           \/ history[i].op = "load_checkpoint" /\ history[i].exists

\* C6: load_checkpoint on a missing file returns normally, does not call
\* compile and leaves self.model, self.encoder, self.decoder and their weights
\* as they were, compiled or not.
C6_LoadMissingIsNoOp ==
    [][LoadStep(FALSE) =>
          /\ history'[Len(history')].result = "ok"
          /\ compileCalls' = compileCalls
          /\ model' = model
          /\ encoder' = encoder
          /\ decoder' = decoder]_vars

\* C6 witness: a compiled and trained model, then load_checkpoint on a missing file.
C6_Witness ==
    /\ Len(history) = 3
    /\ history[1] = [op |-> "compile", exists |-> FALSE, result |-> "ok"]
    /\ history[2] = [op |-> "fit_generator", exists |-> FALSE, result |-> "ok"]
    /\ LastIsLoadMissing
    /\ model.weights = "trained"

\* C7 as stated: after load_checkpoint on a missing file the orchestrator holds
\* a model, an encoder and a decoder with which training or inference can
\* proceed, whether or not compile had been called before.
C7_MissingCheckpointLeavesUsableModel ==
    LastIsLoadMissing =>
        /\ history[Len(history)].result = "ok"
        /\ model # NoObject /\ encoder # NoObject /\ decoder # NoObject
        /\ infer_outcome(Fields) = "ok"
        /\ fit_generator(Fields).result = "ok"

\* C7 amended: load_checkpoint on a missing file is non-fatal and changes
\* nothing. If the models had been built before, the orchestrator holds the
\* model, encoder and decoder (with freshly initialized weights when nothing
\* trained or restored them) and training or inference can proceed; if they
\* had not, self.model, self.encoder and self.decoder are still None and infer
\* and fit_generator raise.
C7_MissingCheckpointKeepsWhatWasBuilt ==
    LastIsLoadMissing =>
        /\ history[Len(history)].result = "ok"
        /\ BuiltBeforeLast =>
              /\ model # NoObject /\ encoder # NoObject /\ decoder # NoObject
              /\ infer_outcome(Fields) = "ok"
              /\ fit_generator(Fields).result = "ok"
              /\ ~WeightsSetBeforeLast =>
                    /\ model.weights = "fresh"
                    /\ encoder.weights = "fresh"
                    /\ decoder.weights = "fresh"
        /\ ~BuiltBeforeLast =>
              /\ model = NoObject /\ encoder = NoObject /\ decoder = NoObject
              /\ infer_outcome(Fields) = "AttributeError"
              /\ fit_generator(Fields).result = "AttributeError"

\* C7 witness: compile, then load_checkpoint on a missing file: the fresh
\* models are there and infer can run.
C7_Witness ==
    /\ Len(history) = 2
    /\ history[1] = [op |-> "compile", exists |-> FALSE, result |-> "ok"]
    /\ LastIsLoadMissing
    /\ model.weights = "fresh"
    /\ infer_outcome(Fields) = "ok"

\* C8: load_checkpoint on an existing file calls compile exactly when
\* self.model is None, never rebuilds a compiled model, and only then restores
\* the weights into the model, the encoder and the decoder: after a call that
\* returns, all three are set and hold the restored weights; when compile
\* raises, nothing is restored.
C8_LoadExistingCompilesThenRestores ==
    [][LoadStep(TRUE) =>
          /\ compileCalls' = IF model = NoObject THEN compileCalls + 1 ELSE compileCalls
          /\ model # NoObject =>
                /\ model'.build = model.build
                /\ encoder'.build = encoder.build
                /\ decoder'.build = decoder.build
          /\ history'[Len(history')].result = "ok" =>
                /\ model' # NoObject /\ encoder' # NoObject /\ decoder' # NoObject
                /\ model'.weights = "loaded"
                /\ encoder'.weights = "loaded"
                /\ decoder'.weights = "loaded"
          /\ history'[Len(history')].result # "ok" =>
                /\ model = NoObject
                /\ model' = NoObject
                /\ encoder'.weights # "loaded"
                /\ decoder'.weights # "loaded"]_vars

\* C8 witness: load_checkpoint of an existing file on a trained model: the
\* model of the first compile is kept and holds the restored weights.
C8_Witness ==
    /\ Len(history) = 3
    /\ history[1].op = "compile"
    /\ history[2].op = "fit_generator"
    /\ history[3] = [op |-> "load_checkpoint", exists |-> TRUE, result |-> "ok"]
    /\ compileCalls = 1
    /\ model.build = 1
    /\ model.weights = "loaded"
    /\ encoder.weights = "loaded"
    /\ decoder.weights = "loaded"

\* Every compile call recorded so far raised.
EveryCompileRaised ==
    \A i \in 1 .. Len(history) :
        history[i].op = "compile" => history[i].result = "AssertionError"

\* C9 as stated: with d_model % num_heads # 0, MultiHeadAttention.__init__
\* raises before depth is set, and compile raises rather than yielding a model,
\* for every num_layers.
C9_BadConfigNeverCompiles ==
    config.d_model % config.num_heads # 0 =>
        /\ MultiHeadAttention(config.d_model, config.num_heads).raised
        /\ ~MultiHeadAttention(config.d_model, config.num_heads).depthSet
        /\ EveryCompileRaised
        /\ model = NoObject /\ encoder = NoObject /\ decoder = NoObject

\* C9 amended: with d_model % num_heads # 0, MultiHeadAttention.__init__ raises
\* before depth is set, and compile raises rather than yielding a model for
\* every num_layers >= 1 (with num_layers = 0 no attention layer is
\* constructed and compile yields a model).
C9_BadConfigNeverCompilesWithLayers ==
    config.d_model % config.num_heads # 0 =>
        /\ MultiHeadAttention(config.d_model, config.num_heads).raised
        /\ ~MultiHeadAttention(config.d_model, config.num_heads).depthSet
        /\ config.num_layers >= 1 =>
              /\ EveryCompileRaised
              /\ model = NoObject /\ encoder = NoObject /\ decoder = NoObject

\* C9 witness: d_model = 4, num_heads = 3, two layers: compile was called and
\* raised.
C9_Witness ==
    /\ config = [num_layers |-> 2, d_model |-> 4, num_heads |-> 3]
    /\ history # <<>>
    /\ history[1] = [op |-> "compile", exists |-> FALSE, result |-> "AssertionError"]
    /\ model = NoObject

\* ---------------------------------------------------- claims about the masks
\* C10: entry (i, j) of create_look_ahead_mask(x) is 1 exactly when j > i or
\* x[j] is the pad id 0 (the strict upper triangle when x holds no pad), and
\* create_padding_mask(x) is 1 exactly at the positions j with x[j] = 0.
C10_MasksBlockFutureAndPad ==
    /\ look_ahead_mask # <<>> =>
          /\ Len(look_ahead_mask) = Len(x)
          /\ \A i \in 1 .. Len(x) :
                /\ Len(look_ahead_mask[i]) = Len(x)
                /\ \A j \in 1 .. Len(x) :
                      look_ahead_mask[i][j] = IF j > i \/ x[j] = 0 THEN 1 ELSE 0
    /\ padding_mask # <<>> =>
          /\ Len(padding_mask) = 1
          /\ Len(padding_mask[1]) = Len(x)
          /\ \A j \in 1 .. Len(x) : padding_mask[1][j] = IF x[j] = 0 THEN 1 ELSE 0

\* C10 witness: a row with a pad in the middle; both masks were computed.
C10_Witness ==
    /\ x = <<1, 0, 2>>
    /\ look_ahead_mask = <<<<0, 1, 1>>, <<0, 1, 1>>, <<0, 1, 0>>>>
    /\ padding_mask = <<<<0, 1, 0>>>>

\* ------------------------------------------- claims about predict_generator
\* infer applied sentence by sentence, batch by batch, to the given batches.
RECURSIVE ExpectedPredicts(_)
ExpectedPredicts(batches) ==
    IF batches = <<>> THEN <<>>
    ELSE InferAll(Head(batches)) \o ExpectedPredicts(Tail(batches))

\* C4: whenever the enqueuer was created, it has been stopped when
\* predict_generator returns or lets an exception propagate, on every exit path.
C4_EnqueuerStoppedOnExit ==
    (pgpc \in {"returned", "raised"} /\ enqueuer # None) => enqueuer = "stopped"

\* C4 witness: infer raised while the producer was running, and the exception
\* propagated with the enqueuer stopped.
C4_Witness ==
    /\ pgpc = "raised"
    /\ exc = "InferError"
    /\ enqueuer = "stopped"
    /\ Len(taken) >= 2

\* C5 as stated: for every workers and max_queue_size, on normal completion
\* exactly `steps` batches were taken, in the order the producer yielded them,
\* and the result is infer over them, in order.
C5_OrderedForEveryWorkers ==
    pgpc = "returned" =>
        /\ steps_done = pgArgs.steps
        /\ Len(taken) = pgArgs.steps
        /\ IsPrefix(taken, yielded)
        /\ predicts = ExpectedPredicts(SubSeq(yielded, 1, pgArgs.steps))

\* C5 amended: with a single producer (workers = 1), or with a Sequence (whose
\* batches the enqueuer requests by index), for every max_queue_size the batches
\* are taken in the order the producer yields them, and on normal completion
\* exactly `steps` were taken and the result is infer over them, in order.
C5_OrderedWithSingleProducer ==
    (pgpc # "idle" /\ (pgArgs.workers = 1 \/ pgArgs.is_sequence)) =>
        /\ IsPrefix(taken, yielded)
        /\ pgpc = "returned" =>
              /\ steps_done = pgArgs.steps
              /\ Len(taken) = pgArgs.steps
              /\ predicts = ExpectedPredicts(SubSeq(yielded, 1, pgArgs.steps))

\* C5 witness: a generator with one worker, two different batches taken, normal
\* completion.
C5_Witness ==
    /\ pgpc = "returned"
    /\ pgArgs.workers = 1
    /\ ~pgArgs.is_sequence
    /\ pgArgs.steps = 2
    /\ Len(taken) = 2
    /\ taken[1] # taken[2]
    /\ Len(predicts) = 3

\* ------------------------------------------------------- claims about infer
\* The predictions made strictly before the first EOS prediction.
RECURSIVE BeforeFirst(_, _)
BeforeFirst(row, id) ==
    IF row = <<>> \/ Head(row) = id THEN <<>>
    ELSE <<Head(row)>> \o BeforeFirst(Tail(row), id)

\* C1: for every sentence and every decoder behaviour (also one that never
\* predicts EOS) the decoding loop makes at most tokenizer.maxlen decoder
\* calls, and infer exits: it returns, or a call of the encoder or the decoder
\* raises.
C1_InferTerminates ==
    /\ [](decCalls <= tokenizer.maxlen /\ it <= tokenizer.maxlen)
    /\ <>(pc \in {"done", "raised"})

\* C1 witness: the decoder never predicted EOS, the loop ran to the cap of
\* maxlen >= 2 decoder calls and infer returned.
C1_Witness ==
    /\ pc = "done"
    /\ tokenizer.maxlen >= 2
    /\ decCalls = tokenizer.maxlen
    /\ it = tokenizer.maxlen
    /\ tokenizer.EOS \notin Elems(preds)

\* C2 as stated: the id list handed to tokenizer.decode holds no id equal to
\* SOS and no id >= vocab_size.
C2_NoSOSNoOutOfVocab ==
    pc = "done" =>
        \A i \in 1 .. Len(decodeArg) :
            decodeArg[i] # tokenizer.SOS /\ decodeArg[i] < tokenizer.vocab_size

\* C2 amended: the id list handed to tokenizer.decode holds no id >= vocab_size
\* and never the leading SOS that seeds the decoder input: it is exactly the
\* predictions that were appended, so it holds the SOS id only at a position
\* where the decoder itself predicted SOS.
C2_OnlyPredictedIds ==
    pc = "done" =>
        /\ \A i \in 1 .. Len(decodeArg) : decodeArg[i] < tokenizer.vocab_size
        /\ Len(decodeArg) = Len(dec_input) - 1
        /\ IsPrefix(decodeArg, preds)
        /\ \A i \in 1 .. Len(decodeArg) :
              decodeArg[i] = tokenizer.SOS => preds[i] = tokenizer.SOS

\* C2 witness: infer returned a list that holds a SOS the decoder predicted.
C2_Witness ==
    /\ pc = "done"
    /\ Len(decodeArg) >= 2
    /\ decodeArg[2] = tokenizer.SOS
    /\ preds[2] = tokenizer.SOS

\* C3: the decoded ids stop at or before the first predicted EOS: EOS is never
\* among them, and they are a prefix of the predictions made strictly before
\* the first EOS prediction.
C3_StopsBeforeEOS ==
    pc = "done" =>
        /\ tokenizer.EOS \notin Elems(decodeArg)
        /\ IsPrefix(decodeArg, BeforeFirst(preds, tokenizer.EOS))

\* C3 witness: the decoder predicted EOS after a kept id, within the length
\* bound, and infer returned the ids before it.
C3_Witness ==
    /\ pc = "done"
    /\ Len(preds) = 2
    /\ preds[2] = tokenizer.EOS
    /\ Len(sentence) = 2
    /\ decodeArg = <<preds[1]>>

\* ------------------------------------------------- claims about autocorrect
\* A token is punctuation: it is made of punctuation marks only.
IsPunctuation(tok) ==
    tok # <<>> /\ \A k \in 1 .. Len(tok) : tok[k] \in Elems(string_punctuation)

\* What becomes of one token: unchanged when it is punctuation, else the
\* corrector's suggestion for it, or the token itself when there is none.
ExpectedToken(tok) ==
    IF IsPunctuation(tok) THEN tok
    ELSE IF tok \in known THEN Suggestion(tok) ELSE tok

ExpectedSentence(s) ==
    join(<<" ">>, [j \in 1 .. Len(split(s)) |-> ExpectedToken(split(s)[j])])

\* C11: in every mode and for a sentence or a list of sentences, autocorrect
\* returns one sentence per input sentence, in order; each is the tokens of the
\* input sentence joined by single blanks, a punctuation token unchanged at its
\* position and any other token replaced by the corrector's suggestion for
\* that token, or kept when there is none.
C11_TokensCorrectedIndependently ==
    lmpc = "returned" =>
        /\ Len(corrected) = Len(AsList(sentences))
        /\ \A i \in 1 .. Len(corrected) :
              corrected[i] = ExpectedSentence(AsList(sentences)[i])

\* ------------------------------------------------------ claims about build
\* C12: build splits the normalized lines into train, the first
\* floor(0.8 * total) lines, valid, the next floor((total - |train|) / 2) lines,
\* and test, the rest: the three are contiguous and in order, cover every
\* position exactly once, and |valid| <= |test| <= |valid| + 1.
C12_SplitIsContiguousPartition ==
    bpc = "built" =>
        LET total == Len(lines)
            nTrain == Len(partitions.train)
            nValid == Len(partitions.valid)
            nTest == Len(partitions.test)
        IN  /\ 10 * nTrain <= 8 * total /\ 8 * total < 10 * (nTrain + 1)
            /\ 2 * nValid <= total - nTrain /\ total - nTrain < 2 * (nValid + 1)
            /\ partitions.train \o partitions.valid \o partitions.test = lines
            /\ nValid <= nTest /\ nTest <= nValid + 1

\* Five lines: four in train, none in valid, one in test.
C12_Witness ==
    /\ bpc = "built"
    /\ Len(lines) = 5
    /\ Len(partitions.train) = 4
    /\ partitions.valid = <<>>
    /\ partitions.test = <<lines[5]>>

\* ------------------------------------- claims about the decoding loop of infer
\* The two states of the loop: DONE once the loop was left (by a break, by the
\* end of range(maxlen) or by an exception), AWAITING_NEXT_TOKEN before.
DONE ==
    \/ pc \in {"post", "done", "raised"}
    \/ pc = "loop" /\ ~RangeHasNext(it, tokenizer.maxlen)

AWAITING_NEXT_TOKEN == pc = "loop" /\ RangeHasNext(it, tokenizer.maxlen)

\* A step in which the decoder delivered a prediction.
Predicted == Len(preds') = Len(preds) + 1

\* The test the claim gives for going on: the decoder input is not longer than
\* the sentence and the prediction is not EOS.
MayContinue ==
    Len(dec_input) <= Len(sentence) /\ preds'[Len(preds')] # tokenizer.EOS

\* DONE is terminal: no decoder call and no appended token after it.
DoneIsTerminal ==
    DONE => DONE' /\ decCalls' = decCalls /\ dec_input' = dec_input /\ preds' = preds

\* C13 as stated: at each step the prediction is appended and the loop goes on
\* exactly when the decoder input is not longer than the sentence and the
\* prediction is not EOS; otherwise the loop is DONE and the prediction is not
\* appended; DONE is terminal.
C13_ContinuesExactlyWhenWithinLength ==
    [][/\ Predicted =>
            IF MayContinue
            THEN dec_input' = Append(dec_input, preds'[Len(preds')])
                 /\ AWAITING_NEXT_TOKEN'
            ELSE dec_input' = dec_input /\ DONE'
        /\ DoneIsTerminal]_vars

\* C13 amended: the prediction is appended exactly when the decoder input is not
\* longer than the sentence and the prediction is not EOS, and the loop then
\* goes on unless this was the last of the maxlen iterations, in which case it
\* is DONE with the prediction appended; otherwise the loop is DONE and the
\* prediction is not appended; DONE is terminal.
C13_ContinuesUnlessLastIteration ==
    [][/\ Predicted =>
            IF MayContinue
            THEN /\ dec_input' = Append(dec_input, preds'[Len(preds')])
                 /\ AWAITING_NEXT_TOKEN' <=> (it + 1 < tokenizer.maxlen)
                 /\ DONE' <=> (it + 1 = tokenizer.maxlen)
            ELSE dec_input' = dec_input /\ DONE'
        /\ DoneIsTerminal]_vars

\* C13 witness: a sentence as long as maxlen = 2, no EOS predicted: the second
\* prediction was appended in the last iteration, the loop is over.
C13_Witness ==
    /\ pc = "loop"
    /\ tokenizer.maxlen = 2
    /\ Len(sentence) = 2
    /\ it = 2
    /\ Len(dec_input) = 3
    /\ dec_input[3] = preds[2]
    /\ tokenizer.EOS \notin Elems(preds)

\* The smaller of two numbers.
Min(a, b) == IF a <= b THEN a ELSE b

\* C14: the number of predicted ids infer keeps (the decoder input without its
\* leading SOS, and so the id list handed to tokenizer.decode) is at most
\* min(len(sentence), maxlen); none is kept for an empty sentence or maxlen = 0.
C14_KeptIdsCappedBySentenceAndMaxlen ==
    dec_input # <<>> =>
        /\ Len(dec_input) - 1 <= Min(Len(sentence), tokenizer.maxlen)
        /\ Len(decodeArg) <= Min(Len(sentence), tokenizer.maxlen)
        /\ (sentence = <<>> \/ tokenizer.maxlen = 0) =>
              dec_input = <<tokenizer.SOS>> /\ decodeArg = <<>>

\* C14 witness: a sentence of two ids, maxlen larger, no EOS: two ids were kept
\* and the third prediction was dropped by the length test.
C14_Witness ==
    /\ pc = "done"
    /\ Len(sentence) = 2
    /\ tokenizer.maxlen > 2
    /\ Len(preds) = 3
    /\ tokenizer.EOS \notin Elems(preds)
    /\ decodeArg = <<preds[1], preds[2]>>

\* C15: in an infer call with a sentence not longer than maxlen, the row handed
\* to the encoder and every row handed to the decoder is not longer than the
\* number of positions of the positional-encoding table they were built with.
C15_SequencesFitPositionalTable ==
    Len(sentence) <= tokenizer.maxlen =>
        \A i \in 1 .. Len(seq_lens) : seq_lens[i] <= position(tokenizer)

====
